---- MODULE Spec2Model ----
(***************************************************************************)
(* A model of pyautodiff's tracing-and-compilation pipeline                *)
(* (autodiff/symbolic.py) and of its optimizer adapters                    *)
(* (autodiff/optimize.py).                                                 *)
(*                                                                         *)
(* Python objects are records [t, v, id]: the type tag, the integer value  *)
(* (0 when the value plays no role) and the object identity id(obj).       *)
(* A shadow (the Theano shared variable standing for a traced object) is   *)
(* identified with the identity of the object it shadows; its mutable      *)
(* .name attribute is kept in shname.                                      *)
(***************************************************************************)
EXTENDS Integers, Sequences, FiniteSets, TLC

VARIABLES
    inst,       \* the wrapper instance: [kind, fn, wrt, flags], or NoInst
    cache,      \* self._cache: cache key -> compiled artifact
    s_vars,     \* self.s_vars: the identities that have a shadow
    s_args,     \* self.s_args: ordered entries [name, tup, sh]
    s_results,  \* self.s_results: ordered identities of the results
    shname,     \* the .name attribute of each shadow
    last,       \* what the last operation did
    heap,       \* the caller's function objects: reference -> func_defaults
    threads     \* the calls in progress of concurrent callers, per thread

vars == <<inst, cache, s_vars, s_args, s_results, shname, last, heap, threads>>

---------------------------------------------------------------------------
(* Bounds of the model.                                                    *)

MaxArgs == 2        \* positional arguments of one call
MaxMiss == 1        \* objects the Trace Oracle leaves without a shadow
MaxResults == 2     \* values the traced function returns
MaxDefaults == 2    \* defaults of a caller's function
MaxVectors == 2     \* direction vectors of one call
MaxLeaves == 2      \* leaves of a tuple that is flattened

(* Program constants.                                                      *)

SmallIntLo == -5
SmallIntHi == 256

---------------------------------------------------------------------------
(* Python values.                                                          *)

None == "None"
NoName == ""

Containers == {"list", "tuple", "dict"}

Obj(t, v, id) == [t |-> t, v |-> v, id |-> id]

\* The caller's objects a traced call can receive.  CPython interns the ints
\* of -5..256, so such an int has one identity wherever it occurs.
IntM6 == Obj("int", -6, 1)
IntM5 == Obj("int", -5, 2)
Int256 == Obj("int", 256, 3)
Int257 == Obj("int", 257, 4)
ArrA == Obj("ndarray", 0, 5)
ArrB == Obj("ndarray", 0, 6)
FloatX == Obj("float", 0, 10)
ListL == Obj("list", 0, 7)
TupleT == Obj("tuple", 0, 8)
DictD == Obj("dict", 0, 9)

ArgPool == {IntM6, IntM5, Int256, Int257, ArrA, ListL, TupleT, DictD}
KwPool == {IntM5, Int257, ArrA, DictD}

SeqsUpTo(S, n) == UNION {[1..k -> S] : k \in 0..n}

\* a keyword mapping is an ordered sequence of <<key, value>> pairs
KwNames == {"y", "k"}
KwChoices == {<<>>} \cup {<< <<k, o>> >> : k \in KwNames, o \in KwPool}

---------------------------------------------------------------------------
(* Target function descriptors: getargspec(pyfn).                          *)

\* args, varargs and keywords as getargspec gives them; defaults are the
\* function's func_defaults, aligned with the last names of args.
PyFn(args, varargs, keywords, defaults) ==
    [args |-> args, varargs |-> varargs, keywords |-> keywords, defaults |-> defaults]

\* the box np.int_(1) that construction puts in place of the default y=1
DefaultY == Obj("np_int", 1, 11)

F_x == PyFn(<<"x">>, NoName, NoName, <<>>)
F_xy == PyFn(<<"x", "y">>, NoName, NoName, <<>>)
F_x_yd == PyFn(<<"x", "y">>, NoName, NoName, <<DefaultY>>)
F_x_rest == PyFn(<<"x">>, "rest", NoName, <<>>)
F_xs == PyFn(<<>>, "xs", NoName, <<>>)
F_x_kw == PyFn(<<"x">>, NoName, "kw", <<>>)

PyFns == {F_x, F_xy, F_x_yd, F_x_rest, F_xs, F_x_kw}

\* identities above every caller object are free for new objects
CallerIds == {o.id : o \in ArgPool \cup {ArrB, FloatX, DefaultY}}
MaxCallerId == CHOOSE m \in CallerIds : \A k \in CallerIds : k <= m
BoxId(i) == MaxCallerId + i
ResId(i) == MaxCallerId + 2 * (MaxArgs + 1) + i

---------------------------------------------------------------------------
(* utils.orderedcallargs: the binding of a call's arguments to the names   *)
(* of pyfn, as inspect.getcallargs computes it, in declaration order.      *)

KwHas(kwargs, k) == \E i \in 1..Len(kwargs) : kwargs[i][1] = k
KwGet(kwargs, k) == kwargs[CHOOSE i \in 1..Len(kwargs) : kwargs[i][1] = k][2]
IsParam(fn, k) == \E j \in 1..Len(fn.args) : fn.args[j] = k
KwIsExtra(fn, p) == ~IsParam(fn, p[1])

orderedcallargs(fn, args, kwargs) ==
    LET np == Len(fn.args)
        na == Len(args)
        firstDef == np - Len(fn.defaults) + 1
        tooMany == na > np /\ fn.varargs = NoName
        dup == \E i \in 1..Len(kwargs) : \E j \in 1..np :
                   j <= na /\ fn.args[j] = kwargs[i][1]
        unknown == \E i \in 1..Len(kwargs) :
                   ~IsParam(fn, kwargs[i][1]) /\ fn.keywords = NoName
        missing == \E j \in 1..np :
                   j > na /\ ~KwHas(kwargs, fn.args[j]) /\ j < firstDef
        pos == [j \in 1..np |->
                   IF j <= na THEN args[j]
                   ELSE IF KwHas(kwargs, fn.args[j]) THEN KwGet(kwargs, fn.args[j])
                   ELSE fn.defaults[j - firstDef + 1]]
        var == IF na > np THEN SubSeq(args, np + 1, na) ELSE <<>>
        kw == SelectSeq(kwargs, LAMBDA p : KwIsExtra(fn, p))
    IN  IF tooMany \/ dup \/ unknown \/ missing
        THEN [err |-> "TypeError", pos |-> <<>>, var |-> <<>>, kw |-> <<>>]
        ELSE [err |-> "none", pos |-> pos, var |-> var, kw |-> kw]

---------------------------------------------------------------------------
(* Symbolic.trace.                                                         *)

\* check as it would be if it let a dict through
check_without_dict(name, i, fresh) ==
    IF i.t = "int" /\ SmallIntLo <= i.v /\ i.v <= SmallIntHi
    THEN [err |-> "none", name |-> name, val |-> Obj("np_int", i.v, fresh)]
    ELSE IF i.t \in {"list", "tuple"}
    THEN [err |-> "TypeError", name |-> name, val |-> i]
    ELSE [err |-> "none", name |-> name, val |-> i]

\* check as it would be if it boxed only the ints above the lower end
check_exclusive_low(name, i, fresh) ==
    IF i.t = "int" /\ SmallIntLo < i.v /\ i.v <= SmallIntHi
    THEN [err |-> "none", name |-> name, val |-> Obj("np_int", i.v, fresh)]
    ELSE IF i.t \in Containers
    THEN [err |-> "TypeError", name |-> name, val |-> i]
    ELSE [err |-> "none", name |-> name, val |-> i]

\* the local function check of trace: a small int is boxed in a new
\* np.int_ object (identity fresh), a container is refused
check(name, i, fresh) ==
    IF i.t = "int" /\ SmallIntLo <= i.v /\ i.v <= SmallIntHi
    THEN [err |-> "none", name |-> name, val |-> Obj("np_int", i.v, fresh)]
    ELSE IF i.t \in Containers
    THEN [err |-> "TypeError", name |-> name, val |-> i]
    ELSE [err |-> "none", name |-> name, val |-> i]

\* the name check is given for the i-th positional argument
PosName(fn, i) == IF i <= Len(fn.args) THEN fn.args[i] ELSE fn.varargs

\* the three loops of trace over args, the extra args and kwargs, in order
CheckAll(fn, args, kwargs) ==
    [i \in 1..(Len(args) + Len(kwargs)) |->
        IF i <= Len(args)
        THEN check(PosName(fn, i), args[i], BoxId(i))
        ELSE check(kwargs[i - Len(args)][1], kwargs[i - Len(args)][2], BoxId(i))]

\* the first index of a set of indices, 0 when there is none
FirstIdx(S) == IF S = {} THEN 0 ELSE CHOOSE i \in S : \A j \in S : i <= j

\* the resolution items of the loop over callargs, in its order
NoIdx == 0 - 1
Item(name, kind, idx, id) == [name |-> name, kind |-> kind, idx |-> idx, id |-> id]

CallItems(fn, b) ==
    [j \in 1..Len(fn.args) |-> Item(fn.args[j], "pos", NoIdx, b.pos[j].id)]
    \o (IF fn.varargs # NoName
        THEN <<Item(fn.varargs, "varinit", NoIdx, 0)>>
             \o [i \in 1..Len(b.var) |-> Item(fn.varargs, "var", i - 1, b.var[i].id)]
        ELSE <<>>)
    \o (IF fn.keywords # NoName
        THEN [i \in 1..Len(b.kw) |-> Item(b.kw[i][1], "kw", NoIdx, b.kw[i][2].id)]
        ELSE <<>>)

Entry(name, tup, sh) == [name |-> name, tup |-> tup, sh |-> sh]

\* s_args after the first n items were stored
RECURSIVE ArgsAfter(_, _)
ArgsAfter(items, n) ==
    IF n = 0 THEN <<>>
    ELSE LET prev == ArgsAfter(items, n - 1)
             it == items[n]
         IN  IF it.kind = "varinit" THEN Append(prev, Entry(it.name, TRUE, <<>>))
             ELSE IF it.kind = "var"
             THEN [prev EXCEPT ![Len(prev)].sh = Append(@, it.id)]
             ELSE Append(prev, Entry(it.name, FALSE, <<it.id>>))

\* the .name of the shadows after the first n items were stored
NoShName == <<NoName, NoIdx>>
RECURSIVE NamesAfter(_, _, _)
NamesAfter(items, n, base) ==
    IF n = 0 THEN base
    ELSE LET prev == NamesAfter(items, n - 1, base)
             it == items[n]
         IN  IF it.kind = "varinit" THEN prev
             ELSE [prev EXCEPT ![it.id] = <<it.name, it.idx>>]

\* the keys of an OrderedDict filled with the ids of rs[1..n], in order
RECURSIVE OrderedIds(_, _)
OrderedIds(rs, n) ==
    IF n = 0 THEN <<>>
    ELSE LET prev == OrderedIds(rs, n - 1)
         IN  IF \E k \in 1..Len(prev) : prev[k] = rs[n] THEN prev ELSE Append(prev, rs[n])

Range(f) == {f[i] : i \in DOMAIN f}

TraceResult(err, errKind, errName, errIdx, called, oargs, okw, sv, sa, sr, sn) ==
    [err |-> err, errKind |-> errKind, errName |-> errName, errIdx |-> errIdx,
     called |-> called, oargs |-> oargs, okw |-> okw,
     s_vars |-> sv, s_args |-> sa, s_results |-> sr, shname |-> sn]

\* the arguments as the three check loops leave them
CheckedArgs(args, checks) == [i \in 1..Len(args) |-> checks[i].val]
CheckedKw(args, kwargs, checks) ==
    [i \in 1..Len(kwargs) |-> <<kwargs[i][1], checks[Len(args) + i].val>>]
\* the first argument check refuses, 0 when it refuses none
FirstBad(checks) == FirstIdx({i \in DOMAIN checks : checks[i].err # "none"})

\* the identities the oracle shadows: the bound arguments and the results,
\* less those it misses
Shadowed(b, orc) ==
    ({o.id : o \in Range(b.pos) \cup Range(b.var)}
     \cup {p[2].id : p \in Range(b.kw)}
     \cup Range(orc.results)) \ orc.miss

FirstLost(items, svars) ==
    FirstIdx({i \in DOMAIN items : items[i].kind # "varinit" /\ items[i].id \notin svars})
FirstLostResult(results, svars) ==
    FirstIdx({i \in DOMAIN results : results[i] \notin svars})
Upto(lost, n) == IF lost = 0 THEN n ELSE lost - 1

\* collect as it would be if it numbered the results from 0
collect_from_zero(fn, b, oargs, okw, orc) ==
    LET svars == Shadowed(b, orc)
        items == CallItems(fn, b)
        lost == FirstLost(items, svars)
        rlost == FirstLostResult(orc.results, svars)
        sa == ArgsAfter(items, Upto(lost, Len(items)))
        sn == NamesAfter(items, Upto(lost, Len(items)), [i \in svars |-> NoShName])
        sr == OrderedIds(orc.results, Upto(rlost, Len(orc.results)))
    IN  IF lost # 0
        THEN TraceResult("KeyError", items[lost].kind, items[lost].name, items[lost].idx,
                         TRUE, oargs, okw, svars, sa, <<>>, sn)
        ELSE IF rlost # 0
        THEN TraceResult("KeyError", "result", NoName, rlost - 1, TRUE, oargs, okw,
                         svars, sa, sr, sn)
        ELSE TraceResult("none", "none", NoName, NoIdx, TRUE, oargs, okw, svars, sa, sr, sn)

\* lines 146-200 of trace: s_vars is filled from the oracle, then s_args
\* from the call's arguments and s_results from the results, each loop
\* stopping at the first object without a shadow
collect(fn, b, oargs, okw, orc) ==
    LET svars == Shadowed(b, orc)
        items == CallItems(fn, b)
        lost == FirstLost(items, svars)
        rlost == FirstLostResult(orc.results, svars)
        sa == ArgsAfter(items, Upto(lost, Len(items)))
        sn == NamesAfter(items, Upto(lost, Len(items)), [i \in svars |-> NoShName])
        sr == OrderedIds(orc.results, Upto(rlost, Len(orc.results)))
    IN  IF lost # 0
        THEN TraceResult("KeyError", items[lost].kind, items[lost].name, items[lost].idx,
                         TRUE, oargs, okw, svars, sa, <<>>, sn)
        ELSE IF rlost # 0
        THEN TraceResult("KeyError", "result", NoName, rlost, TRUE, oargs, okw,
                         svars, sa, sr, sn)
        ELSE TraceResult("none", "none", NoName, NoIdx, TRUE, oargs, okw, svars, sa, sr, sn)

\* lines 136-144 of trace: the maps are cleared and the oracle runs pyfn,
\* which raises when the arguments do not fit its signature
oracle_call(fn, oargs, okw, orc) ==
    LET b == orderedcallargs(fn, oargs, okw)
    IN  IF b.err # "none"
        THEN TraceResult("TypeError", "call", NoName, NoIdx, TRUE, oargs, okw,
                         {}, <<>>, <<>>, <<>>)
        ELSE collect(fn, b, oargs, okw, orc)

\* trace as it would be if it did not clear s_vars and s_results
trace_without_clear(fn, argsT, kwargsT, args, kwargs, orc, sv, sa, sr, sn) ==
    LET checks == CheckAll(fn, args, kwargs)
        r == oracle_call(fn, CheckedArgs(args, checks), CheckedKw(args, kwargs, checks), orc)
    IN  IF argsT \notin {"tuple", None} \/ kwargsT \notin {"dict", None}
        THEN TraceResult("TypeError", "usage", NoName, NoIdx, FALSE, <<>>, <<>>,
                         sv, sa, sr, sn)
        ELSE IF FirstBad(checks) # 0
        THEN TraceResult("TypeError", "container", checks[FirstBad(checks)].name, NoIdx,
                         FALSE, <<>>, <<>>, sv, sa, sr, sn)
        ELSE [r EXCEPT !.s_vars = sv \cup @,
                       !.s_results = OrderedIds(sr \o @, Len(sr) + Len(@))]

\* trace(args, kwargs) of an instance over fn whose maps are sv, sa, sr, sn.
\* argsT and kwargsT are the types of the two parameters; orc is what the
\* Trace Oracle does: the identities it leaves without a shadow (miss) and
\* the identities of the values pyfn returns (results).
trace(fn, argsT, kwargsT, args, kwargs, orc, sv, sa, sr, sn) ==
    LET checks == CheckAll(fn, args, kwargs)
    IN  IF argsT \notin {"tuple", None} \/ kwargsT \notin {"dict", None}
        THEN TraceResult("TypeError", "usage", NoName, NoIdx, FALSE, <<>>, <<>>,
                         sv, sa, sr, sn)
        ELSE IF FirstBad(checks) # 0
        THEN TraceResult("TypeError", "container", checks[FirstBad(checks)].name, NoIdx,
                         FALSE, <<>>, <<>>, sv, sa, sr, sn)
        ELSE oracle_call(fn, CheckedArgs(args, checks), CheckedKw(args, kwargs, checks), orc)

---------------------------------------------------------------------------
(* The Trace Oracle (autodiff.context.Context.call): it runs pyfn on the   *)
(* checked arguments and shadows the objects it meets.  What it returns    *)
(* and which objects it leaves without a shadow is its choice.             *)

SubsetsUpTo(S, n) == {T \in SUBSET S : Cardinality(T) <= n}

\* the values pyfn may return: new objects, the same new object twice, or
\* its first argument unchanged
ResultChoices(oargs) ==
    {[i \in 1..n |-> ResId(i)] : n \in 1..MaxResults}
    \cup {<<ResId(1), ResId(1)>>}
    \cup (IF Len(oargs) > 0 THEN {<<oargs[1].id>>} ELSE {})

NoOracle == [miss |-> {}, results |-> <<ResId(1)>>]

OracleChoices(fn, args, kwargs) ==
    LET checks == CheckAll(fn, args, kwargs)
        b == orderedcallargs(fn, CheckedArgs(args, checks), CheckedKw(args, kwargs, checks))
    IN  IF FirstBad(checks) # 0 \/ b.err # "none"
        THEN {NoOracle}
        ELSE UNION {{[miss |-> m, results |-> rs] :
                        m \in SubsetsUpTo(Shadowed(b, [miss |-> {}, results |-> rs]), MaxMiss)} :
                    rs \in ResultChoices(CheckedArgs(args, checks))}

---------------------------------------------------------------------------
(* The instance.                                                           *)

NoInst == [kind |-> "none"]
NoFlags == [fn |-> FALSE, grad |-> FALSE, hv |-> FALSE]
Instance(kind, fn, wrt, flags) == [kind |-> kind, fn |-> fn, wrt |-> wrt, flags |-> flags]

EmptyMap == <<>>
NoHeap == <<>>
NoThreads == <<>>

\* the state Symbolic.__init__ leaves: empty maps and an empty cache
Constructed(kind, fn, wrt, flags) ==
    /\ inst = Instance(kind, fn, wrt, flags)
    /\ cache = EmptyMap
    /\ s_vars = {}
    /\ s_args = <<>>
    /\ s_results = <<>>
    /\ shname = EmptyMap
    /\ last = [op |-> "init"]
    /\ heap = NoHeap
    /\ threads = NoThreads

\* the oracle that shadows every object and returns one new value
FullOracle == {NoOracle}

\* the types trace can be given for args and kwargs
TraceShapes == {<<"tuple", "dict">>, <<None, None>>, <<"list", "dict">>, <<"tuple", "list">>}

\* Symbolic.trace called directly, with its inputs drawn from the given sets
TraceStep(op, shapes, argsSet, kwSet, full) ==
    /\ inst.kind # "none"
    /\ \E shape \in shapes :
       \E args \in (IF shape[1] = "tuple" THEN argsSet ELSE {<<>>}) :
       \E kwargs \in (IF shape[2] = "dict" THEN kwSet ELSE {<<>>}) :
       \E orc \in (IF full THEN FullOracle ELSE OracleChoices(inst.fn, args, kwargs)) :
          LET r == trace(inst.fn, shape[1], shape[2], args, kwargs, orc,
                         s_vars, s_args, s_results, shname)
          IN  /\ s_vars' = r.s_vars
              /\ s_args' = r.s_args
              /\ s_results' = r.s_results
              /\ shname' = r.shname
              /\ last' = [op |-> op, err |-> r.err, errKind |-> r.errKind,
                          errName |-> r.errName, errIdx |-> r.errIdx,
                          called |-> r.called, argsT |-> shape[1], kwargsT |-> shape[2],
                          args |-> args, kwargs |-> kwargs,
                          oargs |-> r.oargs, okw |-> r.okw,
                          results |-> IF r.called THEN orc.results ELSE <<>>,
                          miss |-> IF r.called THEN orc.miss ELSE {}]
    /\ UNCHANGED <<inst, cache, heap, threads>>

---------------------------------------------------------------------------
(* SpecTrace: one trace of a Symbolic instance, on any arguments, from the *)
(* state construction leaves or from the state an earlier trace left.      *)

TraceArgs == SeqsUpTo(ArgPool, MaxArgs)
SeedArgs == {<<ArrA>>, <<ArrA, ArrB>>}

TraceSeed ==
    /\ last.op = "init"
    /\ TraceStep("seed", {<<"tuple", "dict">>}, SeedArgs, {<<>>}, TRUE)

TraceOnce ==
    /\ last.op \in {"init", "seed"}
    /\ TraceStep("trace", TraceShapes, TraceArgs, KwChoices, FALSE)

InitTrace == \E fn \in PyFns : Constructed("Symbolic", fn, <<>>, NoFlags)
NextTrace == TraceSeed \/ TraceOnce
SpecTrace == InitTrace /\ [][NextTrace]_vars

---------------------------------------------------------------------------
(* Function and Gradient: the arity-keyed cache.                           *)

\* Function.cache_id: the number of extra positional arguments of the call
cache_id_constant(fn, args, kwargs) ==
    [err |-> orderedcallargs(fn, args, kwargs).err, key |-> 0]

cache_id(fn, args, kwargs) ==
    LET callargs == orderedcallargs(fn, args, kwargs)
    IN  [err |-> callargs.err, key |-> Len(callargs.var)]

\* utils.flat_from_doc(self.s_args.values()): the shadows of s_args in order
RECURSIVE FlatShadows(_, _)
FlatShadows(sa, n) == IF n = 0 THEN <<>> ELSE FlatShadows(sa, n - 1) \o sa[n].sh

\* get_theano_vars after a trace that succeeded: one input per distinct
\* shadow of s_args (s_memo is keyed by the shadow), named as the shadow is,
\* and one output per entry of s_results.  An input is known by its name.
GraphInputs(sa, sn) ==
    LET ids == OrderedIds(FlatShadows(sa, Len(sa)), Len(FlatShadows(sa, Len(sa))))
    IN  [k \in DOMAIN ids |-> sn[ids[k]]]

\* Symbolic.get_symbolic_arg(x) for x a string: the entry of s_args
WrtName(name) == [str |-> TRUE, name |-> name, obj |-> Obj("str", 0, 0)]
WrtObj(o) == [str |-> FALSE, name |-> NoName, obj |-> o]

\* get_symbolic_arg as it would be without the test for small ints
get_symbolic_arg_any(x, sv, sa) ==
    IF x.str
    THEN IF \E k \in DOMAIN sa : sa[k].name = x.name
         THEN [err |-> "none", errKind |-> "none",
               sh |-> sa[CHOOSE k \in DOMAIN sa : sa[k].name = x.name].sh]
         ELSE [err |-> "ValueError", errKind |-> "nottraced", sh |-> <<>>]
    ELSE IF x.obj.id \in sv
         THEN [err |-> "none", errKind |-> "none", sh |-> <<x.obj.id>>]
         ELSE [err |-> "ValueError", errKind |-> "nottraced", sh |-> <<>>]

get_symbolic_arg(x, sv, sa) ==
    IF x.obj.t = "int" /\ SmallIntLo <= x.obj.v /\ x.obj.v <= SmallIntHi
    THEN [err |-> "ValueError", errKind |-> "smallint", sh |-> <<>>]
    ELSE IF x.str
    THEN IF \E k \in DOMAIN sa : sa[k].name = x.name
         THEN [err |-> "none", errKind |-> "none",
               sh |-> sa[CHOOSE k \in DOMAIN sa : sa[k].name = x.name].sh]
         ELSE [err |-> "ValueError", errKind |-> "nottraced", sh |-> <<>>]
    ELSE IF x.obj.id \in sv
         THEN [err |-> "none", errKind |-> "none", sh |-> <<x.obj.id>>]
         ELSE [err |-> "ValueError", errKind |-> "nottraced", sh |-> <<>>]

\* the first with-respect-to variable that get_symbolic_arg refuses
WrtLost(wrt, sv, sa) ==
    FirstIdx({k \in DOMAIN wrt : get_symbolic_arg(wrt[k], sv, sa).err # "none"})

\* a compiled callable: its identity (the key it was compiled for and a
\* number that tells it from the callable it replaces under that key), its
\* inputs, and the form of what it returns (n values, bare when unwrapped,
\* each a list of inner derivatives when inner > 0)
Artifact(id, key, inputs, bare, n, inner) ==
    [id |-> id, key |-> key, inputs |-> inputs, bare |-> bare, n |-> n, inner |-> inner]

NoArtifact == Artifact(0, 0, <<>>, FALSE, 0, 0)

\* the identity of a callable newly compiled for key: it is another object
\* than the one the cache holds under that key
FreshId(c, key) == IF key \in DOMAIN c THEN c[key].id + 1 ELSE 1

Put(c, key, art) == [k \in DOMAIN c \cup {key} |-> IF k = key THEN art ELSE c[k]]

\* what theano.function is given by compile_function of Function and of
\* Gradient, from the maps r of the trace
Compiled(kind, wrt, id, key, r) ==
    LET nout == Len(r.s_results)
        inputs == GraphInputs(r.s_args, r.shname)
        nwrt == IF Len(wrt) = 0 THEN Len(inputs) ELSE Len(wrt)
    IN  IF kind = "Gradient"
        THEN IF nout = 1 THEN Artifact(id, key, inputs, FALSE, nwrt, 0)
             ELSE Artifact(id, key, inputs, FALSE, nout, nwrt)
        ELSE Artifact(id, key, inputs, nout = 1, nout, 0)

CallResult(err, errKind, traced, compiled, c, fn) ==
    [err |-> err, errKind |-> errKind, traced |-> traced, compiled |-> compiled,
     cache |-> c, fn |-> fn]

\* compile_function as it would be if it stored the callable before the
\* graph runtime had compiled it
compile_function_store_first(kind, fn, wrt, args, kwargs, r, rt, c) ==
    IF r.err # "none"
    THEN CallResult(r.err, r.errKind, r.called, FALSE, c, NoArtifact)
    ELSE IF kind = "Gradient" /\ WrtLost(wrt, r.s_vars, r.s_args) # 0
    THEN CallResult("ValueError", "wrt", TRUE, FALSE, c, NoArtifact)
    ELSE LET key == cache_id(fn, args, kwargs).key
             art == Compiled(kind, wrt, FreshId(c, key), key, r)
         IN  IF ~rt
             THEN CallResult("RuntimeError", "theano", TRUE, FALSE, Put(c, key, art),
                             NoArtifact)
             ELSE CallResult("none", "none", TRUE, TRUE, Put(c, key, art), art)

\* compile_function(args, kwargs) of Function and Gradient on the trace r:
\* rt tells whether the graph runtime compiles the graph or raises
compile_function(kind, fn, wrt, args, kwargs, r, rt, c) ==
    IF r.err # "none"
    THEN CallResult(r.err, r.errKind, r.called, FALSE, c, NoArtifact)
    ELSE IF kind = "Gradient" /\ WrtLost(wrt, r.s_vars, r.s_args) # 0
    THEN CallResult("ValueError", "wrt", TRUE, FALSE, c, NoArtifact)
    ELSE IF ~rt
    THEN CallResult("RuntimeError", "theano", TRUE, FALSE, c, NoArtifact)
    ELSE LET key == cache_id(fn, args, kwargs).key
             art == Compiled(kind, wrt, FreshId(c, key), key, r)
         IN  CallResult("none", "none", TRUE, TRUE, Put(c, key, art), art)

\* self.cache.get(key): the cached callable, or None
lookup(c, key) == IF key \in DOMAIN c THEN c[key] ELSE NoArtifact

\* Function.call up to the invocation of the callable
call(kind, fn, wrt, args, kwargs, r, rt, c) ==
    LET cid == cache_id(fn, args, kwargs)
    IN  IF cid.err # "none"
        THEN CallResult("TypeError", "call", FALSE, FALSE, c, NoArtifact)
        ELSE IF lookup(c, cid.key) # NoArtifact
        THEN CallResult("none", "none", FALSE, FALSE, c, lookup(c, cid.key))
        ELSE compile_function(kind, fn, wrt, args, kwargs, r, rt, c)

\* get_theano_args: the positional arguments the callable is invoked with
get_theano_args(fn, args, kwargs) ==
    IF fn.varargs # NoName
    THEN LET callargs == orderedcallargs(fn, args, kwargs)
         IN  callargs.pos \o callargs.var
    ELSE args

\* the number of extra positional arguments a call supplies
Arity(fn, args) == IF Len(args) > Len(fn.args) THEN Len(args) - Len(fn.args) ELSE 0

\* the arguments of a call of the compiler, and what the oracle may do
CallPool == {ArrA, ArrB}
\* the two arrays are interchangeable: the first argument is ArrA
CallArgs == {a \in SeqsUpTo(CallPool, MaxArgs) : a = <<>> \/ a[1] = ArrA}
CallKw == {<<>>, << <<"y", ArrB>> >>}

\* the oracle shadows everything and pyfn returns one new value, or the
\* oracle misses the first argument or the result
SomeOracles(args) ==
    {[miss |-> {}, results |-> <<ResId(1)>>],
     [miss |-> {ResId(1)}, results |-> <<ResId(1)>>]}
    \cup {[miss |-> {args[i].id}, results |-> <<ResId(1)>>] : i \in DOMAIN args \cap {1}}

\* whether the call reaches compile_function: the oracle and the graph
\* runtime act only then
Compiles(fn, args, kwargs, c) ==
    LET cid == cache_id(fn, args, kwargs)
    IN  cid.err = "none" /\ lookup(c, cid.key) = NoArtifact

\* Function.__call__ / Function.call(*args, **kwargs)
Call ==
    /\ inst.kind \in {"Function", "Gradient"}
    /\ \E args \in CallArgs, kwargs \in CallKw :
       \E rt \in (IF Compiles(inst.fn, args, kwargs, cache) THEN BOOLEAN ELSE {TRUE}) :
       \E orc \in (IF Compiles(inst.fn, args, kwargs, cache) THEN SomeOracles(args)
                   ELSE {NoOracle}) :
          LET r == trace(inst.fn, "tuple", "dict", args, kwargs, orc,
                         s_vars, s_args, s_results, shname)
              q == call(inst.kind, inst.fn, inst.wrt, args, kwargs, r, rt, cache)
          IN  /\ cache' = q.cache
              /\ s_vars' = IF q.traced THEN r.s_vars ELSE s_vars
              /\ s_args' = IF q.traced THEN r.s_args ELSE s_args
              /\ s_results' = IF q.traced THEN r.s_results ELSE s_results
              /\ shname' = IF q.traced THEN r.shname ELSE shname
              /\ last' = [op |-> "call", err |-> q.err, errKind |-> q.errKind,
                          arity |-> Arity(inst.fn, args),
                          traced |-> q.traced, compiled |-> q.compiled,
                          invoked |-> q.fn,
                          npos |-> IF q.err = "none"
                                   THEN Len(get_theano_args(inst.fn, args, kwargs)) ELSE 0,
                          nkw |-> IF q.err = "none" THEN Len(kwargs) ELSE 0]
    /\ UNCHANGED <<inst, heap, threads>>

\* Symbolic.reset
Reset ==
    /\ inst.kind \in {"Function", "Gradient"}
    /\ s_vars' = {}
    /\ s_args' = <<>>
    /\ s_results' = <<>>
    /\ shname' = EmptyMap
    /\ cache' = EmptyMap
    /\ last' = [op |-> "reset", err |-> "none"]
    /\ UNCHANGED <<inst, heap, threads>>

WrtChoices == {<<>>, <<WrtName("x")>>, <<WrtName("y")>>}

CallFns == {F_xy, F_x_yd, F_x_rest, F_xs}

Init ==
    \E fn \in CallFns :
       \/ Constructed("Function", fn, <<>>, NoFlags)
       \/ \E wrt \in WrtChoices : Constructed("Gradient", fn, wrt, NoFlags)

Next == Call \/ Reset
Spec == Init /\ [][Next]_vars

\* C1: a call of a Function or Gradient instance that fits pyfn's signature
\* and whose arity has an entry in the cache invokes that entry, without a
\* trace, a compilation or a change of the cache; a call whose arity has no
\* entry traces and, when it succeeds, stores and invokes a new entry for
\* its arity; in both cases the entries of the other arities stay as they
\* are.
C1_CachedArityReused ==
    [][(last'.op = "call" /\ last'.errKind # "call")
        => IF last'.arity \in DOMAIN cache
           THEN /\ cache' = cache
                /\ ~last'.traced /\ ~last'.compiled
                /\ last'.err = "none"
                /\ last'.invoked = cache[last'.arity]
           ELSE /\ \A k \in DOMAIN cache : k \in DOMAIN cache' /\ cache'[k] = cache[k]
                /\ last'.traced
                /\ last'.err = "none" =>
                      /\ last'.compiled
                      /\ DOMAIN cache' = DOMAIN cache \cup {last'.arity}
                      /\ last'.invoked = cache'[last'.arity]]_vars

\* a Gradient call is served from the cache while another arity is cached too
C1_Witness ==
    /\ inst.kind = "Gradient"
    /\ last.op = "call" /\ last.err = "none" /\ ~last.traced
    /\ last.arity = 1
    /\ DOMAIN cache = {0, 1, 2}

\* the number of inputs the Gradient callable differentiates by
SelectedInputs(art) == IF inst.wrt = <<>> THEN Len(art.inputs) ELSE Len(inst.wrt)

\* the number of derivatives a callable returns
Derivatives(art) == IF art.inner = 0 THEN art.n ELSE art.n * art.inner

\* C17: the callable a Gradient call compiles returns one derivative per
\* pair of an output and a selected input, the selected inputs being the
\* declared ones or, when none is declared, every input of the graph; a
\* single derivative is returned bare.
C17_GradientForm ==
    (inst.kind = "Gradient" /\ last.op = "call" /\ last.compiled)
        => /\ Derivatives(last.invoked) = Len(s_results) * SelectedInputs(last.invoked)
           /\ (Len(s_results) = 1 /\ SelectedInputs(last.invoked) = 1)
                 => last.invoked.bare

\* C19: the callable a call of a function without defaults compiles has as
\* many inputs as the call has arguments, those Function.call passes to it
\* by position and by keyword.
C19_OneInputPerArgument ==
    (last.op = "call" /\ last.compiled /\ inst.fn.defaults = <<>>)
        => Len(last.invoked.inputs) = last.npos + last.nkw

\* C20: a call of a Function or Gradient instance that raises leaves the
\* cache as it was, and a call adds an entry only for its own arity and
\* only when it compiled without raising; reset empties the cache and the
\* three maps, and the call after a reset that fits pyfn traces again.
C20_CacheHoldsCompiledOnly ==
    [][/\ (last'.op = "call" /\ last'.err # "none") => cache' = cache
       /\ last'.op = "call" =>
             \A k \in DOMAIN cache' :
                \/ k \in DOMAIN cache /\ cache'[k] = cache[k]
                \/ k = last'.arity /\ last'.compiled /\ last'.err = "none"
       /\ last'.op = "reset" =>
             /\ cache' = EmptyMap
             /\ s_vars' = {} /\ s_args' = <<>> /\ s_results' = <<>>
       /\ (last.op = "reset" /\ last'.op = "call" /\ last'.errKind # "call")
             => last'.traced]_vars

\* the graph runtime refused a call whose arity is not cached, while
\* another arity is
C20_Witness ==
    /\ last.op = "call" /\ last.err = "RuntimeError"
    /\ cache # EmptyMap
    /\ last.arity \notin DOMAIN cache

---------------------------------------------------------------------------
(* HessianVector.                                                          *)

\* the classes of symbolic.py and their base classes
Base(cls) == IF cls = "Function" THEN "Symbolic"
             ELSE IF cls \in {"Gradient", "HessianVector", "VectorArgs"} THEN "Function"
             ELSE "object"
IsSubclass(cls, T) == T \in {cls, Base(cls), Base(Base(cls)), Base(Base(Base(cls)))}

\* HessianVector.__init__: super(Gradient, self) needs self to be a Gradient
HessianVector_init(wrt) ==
    IF IsSubclass("HessianVector", "Gradient")
    THEN [err |-> "none", errKind |-> "none"]
    ELSE [err |-> "TypeError", errKind |-> "super"]

HVResult(err, errKind, expected, received) ==
    [err |-> err, errKind |-> errKind, expected |-> expected, received |-> received]

\* the local function wrapper of HessianVector.compile_function
wrapper(wrt, hasVec, nvec) ==
    IF ~hasVec THEN HVResult("ValueError", "missing", 0, 0)
    ELSE IF nvec # Len(wrt) THEN HVResult("ValueError", "count", Len(wrt), nvec)
    ELSE HVResult("none", "none", 0, 0)

\* the attributes of the tuple get_theano_vars returns as inputs
TupleAttrs == {"count", "index"}

\* HessianVector.compile_function on the trace r: it extends inputs, and,
\* past that, returns wrapper(fn), a call of wrapper without _vectors
HessianVector_compile_function(wrt, r) ==
    IF r.err # "none" THEN HVResult(r.err, r.errKind, 0, 0)
    ELSE IF WrtLost(wrt, r.s_vars, r.s_args) # 0 THEN HVResult("ValueError", "wrt", 0, 0)
    ELSE IF "extend" \notin TupleAttrs THEN HVResult("AttributeError", "extend", 0, 0)
    ELSE wrapper(wrt, FALSE, 0)

VectorsKw(hasVec) == IF hasVec THEN << <<"_vectors", TupleT>> >> ELSE <<>>

\* the expression HessianVector(pyfn, wrt=wrt)(*args, _vectors=vectors)
HessianVector_expr(fn, wrt, args, hasVec, nvec) ==
    IF HessianVector_init(wrt).err # "none"
    THEN HVResult(HessianVector_init(wrt).err, HessianVector_init(wrt).errKind, 0, 0)
    ELSE IF cache_id(fn, args, VectorsKw(hasVec)).err # "none"
    THEN HVResult("TypeError", "call", 0, 0)
    ELSE HessianVector_compile_function(wrt,
             trace(fn, "tuple", "dict", args, <<>>, NoOracle, {}, <<>>, <<>>, EmptyMap))

\* a HessianVector compiler is built over a function and called
HVExpr ==
    /\ \E fn \in CallFns, wrt \in WrtChoices, args \in CallArgs :
       \E hasVec \in BOOLEAN, nvec \in 0..MaxVectors :
          LET h == HessianVector_expr(fn, wrt, args, hasVec, nvec)
          IN  last' = [op |-> "hv", err |-> h.err, errKind |-> h.errKind,
                       expected |-> h.expected, received |-> h.received,
                       fn |-> fn, nwrt |-> Len(wrt), args |-> args,
                       hasVec |-> hasVec, nvec |-> IF hasVec THEN nvec ELSE 0]
    /\ UNCHANGED <<inst, cache, s_vars, s_args, s_results, shname, heap, threads>>

NotConstructed ==
    /\ inst = NoInst
    /\ cache = EmptyMap
    /\ s_vars = {}
    /\ s_args = <<>>
    /\ s_results = <<>>
    /\ shname = EmptyMap
    /\ last = [op |-> "init"]
    /\ heap = NoHeap
    /\ threads = NoThreads

InitHV == NotConstructed
NextHV == HVExpr
SpecHV == InitHV /\ [][NextHV]_vars

\* the number of with-respect-to variables of the last HessianVector call:
\* the declared ones, or every input of the graph when none was declared
WrtCount == IF last.nwrt = 0 THEN Len(last.args) ELSE last.nwrt

\* C3: a HessianVector compiler called with a number of direction vectors
\* other than its number of with-respect-to variables fails with the usage
\* error that names the expected and the received count.
C3_CountMismatchReported ==
    (last.op = "hv" /\ last.hasVec /\ last.nvec # WrtCount)
        => /\ last.err = "ValueError" /\ last.errKind = "count"
           /\ last.expected = WrtCount
           /\ last.received = last.nvec

\* C4: a HessianVector call fails with the missing-direction-vector usage
\* error exactly when _vectors is absent: it does when the call omits
\* _vectors, and it does not when the call gives one direction per
\* with-respect-to variable.
C4_MissingVectorsReported ==
    last.op = "hv"
        => /\ ~last.hasVec => (last.err = "ValueError" /\ last.errKind = "missing")
           /\ (last.hasVec /\ last.nvec = WrtCount) => last.errKind # "missing"

---------------------------------------------------------------------------
(* VectorArgs: the compiler over one flat vector.                          *)

VecFlags == {[fn |-> f, grad |-> g, hv |-> h] : f \in BOOLEAN, g \in BOOLEAN, h \in BOOLEAN}

\* VectorArgs.compile_function as it would be if it listed the gradient first
VecCompiled_grad_first(flags, key) ==
    LET outs == (IF flags.grad THEN <<"grad">> ELSE <<>>)
                \o (IF flags.fn THEN <<"fn">> ELSE <<>>)
                \o (IF flags.hv THEN <<"hv">> ELSE <<>>)
    IN  [key |-> key,
         inputs |-> <<"theta">> \o (IF flags.hv THEN <<"vec">> ELSE <<>>),
         outputs |-> outs, bare |-> Len(outs) = 1]

\* what theano.function is given by VectorArgs.compile_function
VecCompiled(flags, key) ==
    LET vector_inputs == <<"theta">> \o (IF flags.hv THEN <<"vec">> ELSE <<>>)
        vector_outputs == (IF flags.fn THEN <<"fn">> ELSE <<>>)
                          \o (IF flags.grad THEN <<"grad">> ELSE <<>>)
                          \o (IF flags.hv THEN <<"hv">> ELSE <<>>)
    IN  [key |-> key, inputs |-> vector_inputs, outputs |-> vector_outputs,
         bare |-> Len(vector_outputs) = 1]

\* VectorArgs.compile_function(args, kwargs) on the trace r
VectorArgs_compile_function(fn, flags, kwargsT, args, kwargs, r, rt, c) ==
    IF kwargsT # "dict"
    THEN CallResult("AttributeError", "copy", FALSE, FALSE, c, NoArtifact)
    ELSE IF r.err # "none"
    THEN CallResult(r.err, r.errKind, r.called, FALSE, c, NoArtifact)
    ELSE IF ~rt
    THEN CallResult("RuntimeError", "theano", TRUE, FALSE, c, NoArtifact)
    ELSE LET key == cache_id(fn, args, kwargs).key
             art == VecCompiled(flags, key)
         IN  CallResult("none", "none", TRUE, TRUE, Put(c, key, art), art)

\* VectorArgs.__init__ as it would be without the test of the three flags
VectorArgs_init_unchecked(fn, flags, kwargsT, args, kwargs, r, rt) ==
    VectorArgs_compile_function(fn, flags, kwargsT, args, kwargs, r, rt, EmptyMap)

\* VectorArgs.__init__
VectorArgs_init(fn, flags, kwargsT, args, kwargs, r, rt) ==
    IF ~(flags.fn \/ flags.grad \/ flags.hv)
    THEN CallResult("ValueError", "flags", FALSE, FALSE, EmptyMap, NoArtifact)
    ELSE VectorArgs_compile_function(fn, flags, kwargsT, args, kwargs, r, rt, EmptyMap)

VecFns == {F_x, F_xy, F_x_yd, F_xs}
VecInitArgs == CallArgs \ {<<>>}
VecKwTypes == {"dict", None}

\* the state VectorArgs(pyfn, init_args, init_kwargs, compile_fn,
\* compile_grad, compile_hv) leaves, or NoInst when it raises
VecState(fn, flags, kwargsT, args, kwargs, rt, orc) ==
    LET r == trace(fn, "tuple", kwargsT, args, kwargs, orc, {}, <<>>, <<>>, EmptyMap)
        q == VectorArgs_init(fn, flags, kwargsT, args, kwargs, r, rt)
        ok == q.err = "none"
    IN  [inst |-> IF ok THEN Instance("VectorArgs", fn, <<>>, flags) ELSE NoInst,
         cache |-> q.cache,
         s_vars |-> IF ok THEN r.s_vars ELSE {},
         s_args |-> IF ok THEN r.s_args ELSE <<>>,
         s_results |-> IF ok THEN r.s_results ELSE <<>>,
         shname |-> IF ok THEN r.shname ELSE EmptyMap,
         last |-> [op |-> "vinit", err |-> q.err, errKind |-> q.errKind,
                   flags |-> flags, args |-> args, kwargs |-> kwargs,
                   traced |-> q.traced]]

\* whether construction reaches the trace: the oracle and the graph runtime
\* act only then
VecCompiles(flags, kwargsT) == (flags.fn \/ flags.grad \/ flags.hv) /\ kwargsT = "dict"

VConstruct ==
    /\ inst = NoInst
    /\ \E fn \in VecFns, flags \in VecFlags, kwargsT \in VecKwTypes :
       \E args \in VecInitArgs :
       \E kwargs \in (IF kwargsT = "dict" THEN CallKw ELSE {<<>>}) :
       \E rt \in (IF VecCompiles(flags, kwargsT) THEN BOOLEAN ELSE {TRUE}) :
       \E orc \in (IF VecCompiles(flags, kwargsT) THEN SomeOracles(args) ELSE {NoOracle}) :
          LET v == VecState(fn, flags, kwargsT, args, kwargs, rt, orc)
          IN  /\ inst' = v.inst
              /\ cache' = v.cache
              /\ s_vars' = v.s_vars
              /\ s_args' = v.s_args
              /\ s_results' = v.s_results
              /\ shname' = v.shname
              /\ last' = v.last
    /\ UNCHANGED <<heap, threads>>

\* a call with the flat vector, or with it and a direction vector
VecCallArgs == {<<ArrA>>, <<ArrA, ArrB>>}

\* VectorArgs.call(*args) up to the invocation of what the cache returned
VectorArgs_call(fn, args, c) ==
    LET cid == cache_id(fn, args, <<>>)
    IN  IF cid.err # "none"
        THEN [err |-> "TypeError", errKind |-> "call", key |-> NoIdx, fn |-> NoArtifact]
        ELSE IF lookup(c, cid.key) = NoArtifact
        THEN [err |-> "TypeError", errKind |-> "NoneType", key |-> cid.key, fn |-> NoArtifact]
        ELSE IF Len(args) # Len(lookup(c, cid.key).inputs)
        THEN [err |-> "TypeError", errKind |-> "inputs", key |-> cid.key,
              fn |-> lookup(c, cid.key)]
        ELSE [err |-> "none", errKind |-> "none", key |-> cid.key, fn |-> lookup(c, cid.key)]

VCall ==
    /\ inst.kind = "VectorArgs"
    /\ \E args \in VecCallArgs :
          LET q == VectorArgs_call(inst.fn, args, cache)
          IN  last' = [op |-> "vcall", err |-> q.err, errKind |-> q.errKind,
                       nargs |-> Len(args), key |-> q.key, invoked |-> q.fn]
    /\ UNCHANGED <<inst, cache, s_vars, s_args, s_results, shname, heap, threads>>

\* an array-like value: its class, and the dtype, the shape and the
\* elements in C order of np.asarray of it
Leaf(cls, dtype, shape, flat) == [cls |-> cls, dtype |-> dtype, shape |-> shape, flat |-> flat]

LeafPool ==
    {Leaf("ndarray", "float64", <<>>, <<1>>),
     Leaf("ndarray", "float64", <<2>>, <<1, 2>>),
     Leaf("ndarray", "float64", <<2>>, <<2, 1>>),
     Leaf("ndarray", "int64", <<2>>, <<1, 2>>),
     Leaf("ndarray", "float64", <<1, 2>>, <<1, 2>>),
     Leaf("ndarray", "float64", <<2, 1>>, <<1, 2>>),
     Leaf("ndarray", "float64", <<0>>, <<>>),
     Leaf("np_float64", "float64", <<>>, <<2>>),
     Leaf("float", "float64", <<>>, <<2>>),
     Leaf("list", "int64", <<2>>, <<1, 2>>)}

LeafTuples == SeqsUpTo(LeafPool, MaxLeaves)

\* the attributes of a value that args_from_vector reads
HasSizeAndShape(cls) == cls \in {"ndarray", "np_float64"}

RECURSIVE Prod(_)
Prod(shape) == IF shape = <<>> THEN 1 ELSE Head(shape) * Prod(Tail(shape))

RECURSIVE ConcatFlat(_)
ConcatFlat(args) == IF args = <<>> THEN <<>> ELSE Head(args).flat \o ConcatFlat(Tail(args))

\* the dtype np.concatenate gives the vector
ResultType(args) ==
    IF \E k \in DOMAIN args : args[k].dtype = "float64" THEN "float64" ELSE "int64"

\* VectorArgs.vector_from_args
vector_from_args(args) ==
    IF args = <<>>
    THEN [err |-> "ValueError", errKind |-> "concatenate", dtype |-> None, flat |-> <<>>]
    ELSE [err |-> "none", errKind |-> "none", dtype |-> ResultType(args),
          flat |-> ConcatFlat(args)]

\* vector[lo:hi]
Slice(flat, lo, hi) ==
    SubSeq(flat, lo + 1, IF hi > Len(flat) THEN Len(flat) ELSE hi)

\* VectorArgs.args_from_vector: the loop from last_idx on, args the list so far
RECURSIVE args_from_vector(_, _, _, _)
args_from_vector(vector, orig_args, last_idx, args) ==
    IF orig_args = <<>> THEN [err |-> "none", errKind |-> "none", args |-> args]
    ELSE LET a == Head(orig_args)
             size == Prod(a.shape)
             part == Slice(vector.flat, last_idx, last_idx + size)
         IN  IF ~HasSizeAndShape(a.cls)
             THEN [err |-> "AttributeError", errKind |-> "size", args |-> <<>>]
             ELSE IF Len(part) # size
             THEN [err |-> "ValueError", errKind |-> "reshape", args |-> <<>>]
             ELSE args_from_vector(vector, Tail(orig_args), last_idx + size,
                      Append(args, Leaf("ndarray", vector.dtype, a.shape, part)))

\* args_from_vector(vector_from_args(a), a)
round_trip(a) ==
    IF vector_from_args(a).err # "none"
    THEN [err |-> vector_from_args(a).err, errKind |-> vector_from_args(a).errKind,
          args |-> <<>>]
    ELSE args_from_vector(vector_from_args(a), a, 0, <<>>)

\* a tuple is flattened and the vector is split again
VRoundTrip ==
    /\ inst.kind = "VectorArgs"
    /\ \E a \in LeafTuples :
          last' = [op |-> "roundtrip", err |-> round_trip(a).err,
                   errKind |-> round_trip(a).errKind, a |-> a, back |-> round_trip(a).args]
    /\ UNCHANGED <<inst, cache, s_vars, s_args, s_results, shname, heap, threads>>

\* the shape of a traced object: the two arrays of the model have two
\* elements each, in one and in two dimensions; any other object is a scalar
ShapeOfId(id) ==
    IF id = ArrA.id THEN <<2>>
    ELSE IF id = ArrB.id THEN <<1, 2>>
    ELSE <<>>

SizeOfId(id) == Prod(ShapeOfId(id))

RECURSIVE SumTo(_, _)
SumTo(sizes, n) == IF n = 0 THEN 0 ELSE SumTo(sizes, n - 1) + sizes[n]

\* the slices a loop carves that advances by the size of each leaf
Slices(sizes) == [k \in DOMAIN sizes |-> [offset |-> SumTo(sizes, k - 1), length |-> sizes[k]]]

\* VectorArgs.get_theano_vars: the slices of theta, one per shadow of s_args
VecLayout(sa) ==
    LET sym_args == FlatShadows(sa, Len(sa))
    IN  Slices([k \in DOMAIN sym_args |-> SizeOfId(sym_args[k])])

\* vector_from_args(args) and args_from_vector(vector, args): the slices of
\* the vector, one per element of args
FlatLayout(args) == Slices([k \in DOMAIN args |-> SizeOfId(args[k].id)])

---------------------------------------------------------------------------
(* optimize.py: the adapters.                                              *)

\* the classes autodiff.symbolic defines
SymbolicNames == {"Symbolic", "Function", "Gradient", "HessianVector", "VectorArgs"}

\* the parameters without a default of VectorArgs.__init__ and of
\* VectorArgs.args_from_vector, self apart
InitRequired == {"pyfn", "init_args", "init_kwargs"}
UnflattenRequired == {"vector", "orig_args"}

\* the arguments the adapters pass to VectorArgs and to args_from_vector
InitGiven == {"pyfn", "init_args"}
UnflattenGiven == {"vector"}

FminResult(err, errKind, n, bare) == [err |-> err, errKind |-> errKind, n |-> n, bare |-> bare]

\* import autodiff.optimize
optimize_import ==
    IF "VectorArg" \in SymbolicNames THEN FminResult("none", "none", 0, FALSE)
    ELSE FminResult("ImportError", "VectorArg", 0, FALSE)

\* the adapter from the construction of the flat objective to the return
adapter(args, rt) ==
    IF ~(InitRequired \subseteq InitGiven)
    THEN FminResult("TypeError", "init_kwargs", 0, FALSE)
    ELSE IF ~rt THEN FminResult("RuntimeError", "scipy", 0, FALSE)
    ELSE IF ~(UnflattenRequired \subseteq UnflattenGiven)
    THEN FminResult("TypeError", "orig_args", 0, FALSE)
    ELSE FminResult("none", "none", Len(args), Len(args) = 1)

\* optimize.fmin_cg(fn, args)
fmin_cg(args, rt) ==
    IF optimize_import.err # "none" THEN optimize_import ELSE adapter(args, rt)

\* optimize.fmin_l_bfgs_b(fn, args, scalar_bounds, **scipy_kwargs)
fmin_l_bfgs_b(args, scalar_bounds, scipy_kwargs, rt) ==
    IF optimize_import.err # "none" THEN optimize_import
    ELSE IF ~(InitRequired \subseteq InitGiven)
    THEN FminResult("TypeError", "init_kwargs", 0, FALSE)
    ELSE IF "approx_grad" \in scipy_kwargs
    THEN FminResult("TypeError", "approx_grad", 0, FALSE)
    ELSE IF scalar_bounds /\ "bounds" \in scipy_kwargs
    THEN FminResult("TypeError", "bounds", 0, FALSE)
    ELSE adapter(args, rt)

FminCg ==
    /\ \E args \in VecInitArgs, rt \in BOOLEAN :
          last' = [op |-> "fmin_cg", err |-> fmin_cg(args, rt).err,
                   errKind |-> fmin_cg(args, rt).errKind, nargs |-> Len(args),
                   n |-> fmin_cg(args, rt).n, bare |-> fmin_cg(args, rt).bare,
                   options |-> {}, scalar_bounds |-> FALSE]
    /\ UNCHANGED <<inst, cache, s_vars, s_args, s_results, shname, heap, threads>>

FminLBfgsB ==
    /\ \E args \in VecInitArgs, rt \in BOOLEAN, scalar_bounds \in BOOLEAN :
       \E scipy_kwargs \in SUBSET {"approx_grad", "bounds"} :
          LET q == fmin_l_bfgs_b(args, scalar_bounds, scipy_kwargs, rt)
          IN  last' = [op |-> "fmin_l_bfgs_b", err |-> q.err, errKind |-> q.errKind,
                       nargs |-> Len(args), n |-> q.n, bare |-> q.bare,
                       options |-> scipy_kwargs, scalar_bounds |-> scalar_bounds]
    /\ UNCHANGED <<inst, cache, s_vars, s_args, s_results, shname, heap, threads>>

InitVec == NotConstructed
NextVec == VConstruct \/ VCall \/ FminCg \/ FminLBfgsB
SpecVec == InitVec /\ [][NextVec]_vars

\* SpecFlat: the flattening maps of an instance built for evaluation
InitFlat ==
    LET v == VecState(F_x, [fn |-> TRUE, grad |-> FALSE, hv |-> FALSE], "dict",
                      <<ArrA>>, <<>>, TRUE, NoOracle)
    IN  /\ inst = v.inst
        /\ cache = v.cache
        /\ s_vars = v.s_vars
        /\ s_args = v.s_args
        /\ s_results = v.s_results
        /\ shname = v.shname
        /\ last = v.last
        /\ heap = NoHeap
        /\ threads = NoThreads
NextFlat == VRoundTrip
SpecFlat == InitFlat /\ [][NextFlat]_vars

\* C2: flattening a tuple of array-like leaves and splitting the vector
\* again by the same tuple gives a sequence of the same length whose k-th
\* element has the shape and, in order, the elements of the k-th leaf.
C2_RoundTrip ==
    last.op = "roundtrip"
        => /\ last.err = "none"
           /\ Len(last.back) = Len(last.a)
           /\ \A k \in DOMAIN last.a :
                 /\ last.back[k].shape = last.a[k].shape
                 /\ last.back[k].flat = last.a[k].flat

\* C6: each adapter, given a function and its initial arguments, returns
\* one array per original argument, bare when there was exactly one.
C6_AdaptersUnflatten ==
    (/\ last.op \in {"fmin_cg", "fmin_l_bfgs_b"}
     /\ "approx_grad" \notin last.options
     /\ ~(last.scalar_bounds /\ "bounds" \in last.options))
        => /\ last.err \in {"none", "RuntimeError"}
           /\ last.err = "none" => (last.n = last.nargs /\ last.bare = (last.nargs = 1))

\* C14: fmin_l_bfgs_b raises the duplicate-argument error when its options
\* hold approx_grad, and when scalar_bounds is given and its options hold
\* bounds; a call whose options hold bounds only, without scalar_bounds, is
\* not rejected.
C14_DuplicateOptionsRejected ==
    last.op = "fmin_l_bfgs_b"
        => /\ "approx_grad" \in last.options
                 => (last.err = "TypeError" /\ last.errKind = "approx_grad")
           /\ ("approx_grad" \notin last.options
               /\ last.scalar_bounds /\ "bounds" \in last.options)
                 => (last.err = "TypeError" /\ last.errKind = "bounds")
           /\ ("approx_grad" \notin last.options
               /\ ~last.scalar_bounds /\ "bounds" \in last.options)
                 => last.err \in {"none", "RuntimeError"}

\* C15: the construction of a VectorArgs instance with none of compile_fn,
\* compile_grad and compile_hv set raises the usage error without a trace
\* and without a cache entry; a construction with one of them set that
\* returns has traced pyfn and left its callable in the cache.
C15_FlagsRequired ==
    last.op = "vinit"
        => IF ~(last.flags.fn \/ last.flags.grad \/ last.flags.hv)
           THEN /\ last.err = "ValueError" /\ last.errKind = "flags"
                /\ ~last.traced
                /\ inst = NoInst /\ cache = EmptyMap
                /\ s_vars = {} /\ s_args = <<>> /\ s_results = <<>>
           ELSE last.err = "none"
                   => /\ last.traced
                      /\ inst.kind = "VectorArgs"
                      /\ Cardinality(DOMAIN cache) = 1
                      /\ s_results # <<>>

\* a construction without a flag was refused
C15_Witness ==
    /\ last.op = "vinit"
    /\ last.flags = [fn |-> FALSE, grad |-> FALSE, hv |-> FALSE]
    /\ last.err = "ValueError" /\ inst = NoInst

\* C16: after the construction of a VectorArgs instance over a function
\* without defaults, the slices of the flat vector carved at compile time
\* are those vector_from_args and args_from_vector use for init_args.
C16_LayoutAgrees ==
    (last.op = "vinit" /\ last.err = "none" /\ inst.fn.defaults = <<>>)
        => VecLayout(s_args) = FlatLayout(last.args)

\* C7: a call of a constructed VectorArgs instance with the flat vector
\* finds the callable construction stored: its key is in the cache, and
\* what is invoked is the cache's one entry.
C7_CallHits ==
    (last.op = "vcall" /\ last.nargs = 1)
        => /\ last.errKind \notin {"call", "NoneType"}
           /\ last.key \in DOMAIN cache
           /\ last.invoked = cache[last.key]
           /\ Cardinality(DOMAIN cache) = 1

\* C8: the callable a VectorArgs instance holds takes the flat vector, and
\* the direction vector second exactly when compile_hv is set; it returns
\* the requested ones of evaluation, gradient and Hessian-vector product
\* in that order, bare when exactly one is requested.
C8_CompiledForm ==
    inst.kind = "VectorArgs"
        => \A k \in DOMAIN cache :
              /\ cache[k].inputs = IF inst.flags.hv THEN <<"theta", "vec">> ELSE <<"theta">>
              /\ cache[k].outputs = SelectSeq(<<"fn", "grad", "hv">>,
                                              LAMBDA o : inst.flags[o])
              /\ cache[k].bare = (Cardinality({o \in {"fn", "grad", "hv"} : inst.flags[o]}) = 1)
              /\ (last.op = "vcall" /\ last.err = "none") => last.invoked = cache[k]

\* a call of an instance compiled for all three outputs returned them
C8_Witness ==
    /\ inst.kind = "VectorArgs"
    /\ inst.flags = [fn |-> TRUE, grad |-> TRUE, hv |-> TRUE]
    /\ last.op = "vcall" /\ last.err = "none"
    /\ last.invoked.outputs = <<"fn", "grad", "hv">>

---------------------------------------------------------------------------
(* Construction: the copy of pyfn and its defaults.                        *)

\* the references of the caller's function object and of a copy of it
CallerRef == "caller"
CopyRef == "copy"

\* the types copy.deepcopy returns as they are
AtomicTypes == {"NoneType", "int", "float", "bool", "str", "type", "function"}

\* copy.deepcopy(pyfn): the reference of the copy and the heap that holds it
deepcopy(h, ref, type) ==
    IF type \in AtomicTypes THEN [heap |-> h, ref |-> ref]
    ELSE [heap |-> [r \in DOMAIN h \cup {CopyRef} |-> h[ref]], ref |-> CopyRef]

\* the loop over the reversed defaults: new_defaults, in the order appended
new_defaults(defaults) ==
    [i \in 1..Len(defaults) |->
        LET d == defaults[Len(defaults) + 1 - i]
        IN  IF d.t = "int" /\ SmallIntLo <= d.v /\ d.v <= SmallIntHi
            THEN Obj("np_int", d.v, BoxId(i))
            ELSE d]

\* Symbolic.__init__(pyfn) on the heap h: the heap it leaves and its _pyfn
Symbolic_init(h, ref) ==
    LET p == deepcopy(h, ref, "function")
    IN  IF p.heap[p.ref] # <<>>
        THEN [heap |-> [p.heap EXCEPT ![p.ref] = new_defaults(p.heap[p.ref])], ref |-> p.ref]
        ELSE p

DefaultPool == {IntM6, IntM5, Int256, Int257, FloatX}
DefaultNames == <<"a", "b", "c", "d">>

\* a function def f(x, a=.., b=..) with the given defaults
CtorFn(defaults) ==
    PyFn(<<"x">> \o SubSeq(DefaultNames, 1, Len(defaults)), NoName, NoName, defaults)

CtorKinds == {"Symbolic", "Function", "Gradient", "HessianVector"}

\* Symbolic(pyfn), Function(pyfn), Gradient(pyfn), HessianVector(pyfn)
Construct ==
    /\ inst = NoInst
    /\ last.op = "init"
    /\ \E kind \in CtorKinds :
          LET bad == kind = "HessianVector" /\ HessianVector_init(<<>>).err # "none"
              q == Symbolic_init(heap, CallerRef)
          IN  /\ heap' = IF bad THEN heap ELSE q.heap
              /\ inst' = IF bad THEN NoInst
                         ELSE Instance(kind, CtorFn(q.heap[q.ref]), <<>>, NoFlags)
              /\ last' = [op |-> "construct", kind |-> kind,
                          err |-> IF bad THEN HessianVector_init(<<>>).err ELSE "none",
                          before |-> heap[CallerRef],
                          pyfn |-> IF bad THEN None ELSE q.ref]
    /\ UNCHANGED <<cache, s_vars, s_args, s_results, shname, threads>>

InitCtor ==
    /\ inst = NoInst
    /\ cache = EmptyMap
    /\ s_vars = {}
    /\ s_args = <<>>
    /\ s_results = <<>>
    /\ shname = EmptyMap
    /\ last = [op |-> "init"]
    /\ \E defaults \in SeqsUpTo(DefaultPool, MaxDefaults) : heap = [r \in {CallerRef} |-> defaults]
    /\ threads = NoThreads
NextCtor == Construct
SpecCtor == InitCtor /\ [][NextCtor]_vars

\* C9: constructing a wrapper around a function leaves the defaults of the
\* caller's function object as they were.
C9_CallerFunctionUnchanged ==
    (last.op = "construct" /\ last.err = "none") => heap[CallerRef] = last.before

---------------------------------------------------------------------------
(* SpecArg: traces of a Symbolic instance and selective retrieval of the   *)
(* shadows they leave.                                                     *)

ArgFns == {F_xy, F_x_rest, F_x_kw}
ArgArgs == SeqsUpTo({IntM5, Int257, ArrA}, MaxArgs)
ArgKw == {<<>>, << <<"k", ArrB>> >>}

\* what get_symbolic_arg is asked for: a name, a caller's object, or the
\* box the last trace made of the first argument
GetChoices ==
    {WrtName(n) : n \in {"x", "y", "rest", "k"}}
    \cup {WrtObj(o) : o \in {IntM6, IntM5, Int256, Int257, ArrA, ArrB,
                             Obj("np_int", SmallIntLo, BoxId(1))}}

\* Symbolic.trace(args, kwargs).  A retrieval leaves the instance as it
\* was, so the traces that could follow one are those that precede it.
ArgTrace ==
    /\ last.op # "get"
    /\ TraceStep("trace", {<<"tuple", "dict">>}, ArgArgs, ArgKw, FALSE)

\* Symbolic.get_symbolic_arg(x)
GetSymbolicArg ==
    /\ inst.kind # "none"
    /\ \E x \in GetChoices :
          LET g == get_symbolic_arg(x, s_vars, s_args)
          IN  last' = [op |-> "get", x |-> x, err |-> g.err, errKind |-> g.errKind,
                       sh |-> g.sh]
    /\ UNCHANGED <<inst, cache, s_vars, s_args, s_results, shname, heap, threads>>

InitArg == \E fn \in ArgFns : Constructed("Symbolic", fn, <<>>, NoFlags)
NextArg == ArgTrace \/ GetSymbolicArg
SpecArg == InitArg /\ [][NextArg]_vars

\* C11: get_symbolic_arg(x) raises the small-integer error, and returns no
\* shadow, when x is an int of -5..256; for any other x it returns what
\* s_args holds under the name x (x a string) or the shadow s_vars holds
\* for the identity of x, or raises the not-traced error when there is
\* none; it changes neither the shadow maps nor the cache.
C11_GetSymbolicArg ==
    [][last'.op = "get"
        => /\ UNCHANGED <<s_vars, s_args, s_results, shname, cache>>
           /\ LET x == last'.x
                  named == {k \in DOMAIN s_args : s_args[k].name = x.name}
              IN  IF ~x.str /\ x.obj.t = "int" /\ x.obj.v >= -5 /\ x.obj.v <= 256
                  THEN last'.err = "ValueError" /\ last'.errKind = "smallint"
                       /\ last'.sh = <<>>
                  ELSE IF x.str /\ named # {}
                  THEN last'.err = "none" /\ \A k \in named : last'.sh = s_args[k].sh
                  ELSE IF ~x.str /\ x.obj.id \in s_vars
                  THEN last'.err = "none" /\ last'.sh = <<x.obj.id>>
                  ELSE last'.err = "ValueError" /\ last'.errKind = "nottraced"
                       /\ last'.sh = <<>>]_vars

\* a small int is refused after a trace that shadowed the box made of it
C11_Witness ==
    /\ last.op = "get" /\ last.x = WrtObj(IntM5)
    /\ last.err = "ValueError" /\ last.errKind = "smallint"
    /\ BoxId(1) \in s_vars

\* the binding of the last trace's checked arguments, and the arguments
\* and results of it that s_vars does not hold
LastBound == orderedcallargs(inst.fn, last.oargs, last.okw)
LostPos == {j \in DOMAIN LastBound.pos : LastBound.pos[j].id \notin s_vars}
LostVar == {j \in DOMAIN LastBound.var : LastBound.var[j].id \notin s_vars}
LostKw == {j \in DOMAIN LastBound.kw : LastBound.kw[j][2].id \notin s_vars}
LostResults == {j \in DOMAIN last.results : last.results[j] \notin s_vars}

\* C12: a trace of a call that fits pyfn, after which an argument or a
\* result has no entry in s_vars, fails with a KeyError that names an
\* offender: the name of a positional or keyword argument, the 0-based item
\* and the name of the variadic argument, or the 1-based position of a
\* result; a trace after which all have an entry raises no error.
C12_LookupErrorNamesOffender ==
    (last.op = "trace" /\ last.called /\ LastBound.err = "none")
        => IF LostPos \cup LostVar \cup LostKw \cup LostResults = {}
           THEN last.err = "none"
           ELSE /\ last.err = "KeyError"
                /\ \/ /\ last.errKind = "pos"
                      /\ \E j \in LostPos : last.errName = inst.fn.args[j]
                   \/ /\ last.errKind = "kw"
                      /\ \E j \in LostKw : last.errName = LastBound.kw[j][1]
                   \/ /\ last.errKind = "var"
                      /\ last.errName = inst.fn.varargs
                      /\ last.errIdx + 1 \in LostVar
                   \/ /\ last.errKind = "result"
                      /\ LostPos \cup LostVar \cup LostKw = {}
                      /\ last.errIdx \in LostResults

\* the second value pyfn returned has no shadow and is reported as result 2
C12_Witness ==
    /\ last.op = "trace" /\ last.err = "KeyError"
    /\ last.errKind = "result" /\ last.errIdx = 2
    /\ LostResults = {2}

---------------------------------------------------------------------------
(* SpecThreads: two threads call one Function instance.  The instance has  *)
(* no lock: the maps and the cache are attributes both threads read and    *)
(* write, and a thread may be suspended between any two statements.  A     *)
(* call is cut where it touches them: the cache lookup, the clearing of    *)
(* the maps, their filling, the building of the graph from them, and the   *)
(* store in the cache.                                                     *)

Threads == {"t1", "t2"}

\* what the oracle does in a thread: it shadows everything, and the value
\* pyfn returns is a new object of that call
ThreadOracle(t) == [miss |-> {}, results |-> <<IF t = "t1" THEN ResId(1) ELSE ResId(2)>>]

Idle == [pc |-> "idle", args |-> <<>>, missed |-> FALSE, inputs |-> <<>>,
         outputs |-> <<>>, fn |-> NoArtifact, err |-> "none"]

ThreadArgs == {<<ArrA>>, <<ArrA, ArrB>>}

\* d[e.name] = e.sh on the OrderedDict d
SetEntry(d, e) ==
    IF \E k \in DOMAIN d : d[k].name = e.name
    THEN [k \in DOMAIN d |-> IF d[k].name = e.name THEN e ELSE d[k]]
    ELSE Append(d, e)

RECURSIVE SetEntries(_, _, _)
SetEntries(d, es, n) == IF n = 0 THEN d ELSE SetEntry(SetEntries(d, es, n - 1), es[n])

\* Function.call, line 319: the lookup in the cache
TLookup(t) ==
    /\ threads[t].pc = "idle"
    /\ \E args \in ThreadArgs :
          LET cid == cache_id(inst.fn, args, <<>>)
              hit == cid.err = "none" /\ lookup(cache, cid.key) # NoArtifact
          IN  threads' = [threads EXCEPT ![t] =
                  [@ EXCEPT !.args = args,
                            !.missed = cid.err = "none" /\ ~hit,
                            !.fn = IF hit THEN lookup(cache, cid.key) ELSE NoArtifact,
                            !.err = IF cid.err = "none" THEN "none" ELSE "TypeError",
                            !.pc = IF cid.err # "none" THEN "done"
                                   ELSE IF hit THEN "invoke" ELSE "tracing"]]
    /\ UNCHANGED <<inst, cache, s_vars, s_args, s_results, shname, last, heap>>

\* Symbolic.trace, lines 104-139: the checks, then the maps are cleared
TClear(t) ==
    /\ threads[t].pc = "tracing"
    /\ s_vars' = {}
    /\ s_args' = <<>>
    /\ s_results' = <<>>
    /\ shname' = EmptyMap
    /\ threads' = [threads EXCEPT ![t].pc = "cleared"]
    /\ UNCHANGED <<inst, cache, last, heap>>

\* Symbolic.trace, lines 141-200: the oracle runs pyfn, s_vars is updated
\* with its map, and the entries of s_args and s_results are set
TCollect(t) ==
    /\ threads[t].pc = "cleared"
    /\ LET b == orderedcallargs(inst.fn, threads[t].args, <<>>)
           orc == ThreadOracle(t)
           items == CallItems(inst.fn, b)
           svars == s_vars \cup Shadowed(b, orc)
           base == [i \in svars |-> IF i \in DOMAIN shname THEN shname[i] ELSE NoShName]
       IN  /\ s_vars' = svars
           /\ s_args' = SetEntries(s_args, ArgsAfter(items, Len(items)), Len(ArgsAfter(items, Len(items))))
           /\ shname' = NamesAfter(items, Len(items), base)
           /\ s_results' = OrderedIds(s_results \o orc.results, Len(s_results) + Len(orc.results))
    /\ threads' = [threads EXCEPT ![t].pc = "traced"]
    /\ UNCHANGED <<inst, cache, last, heap>>

\* Symbolic.get_theano_vars, lines 212-237: the graph is built from s_args
\* and s_results
TBuild(t) ==
    /\ threads[t].pc = "traced"
    /\ threads' = [threads EXCEPT ![t] =
           [@ EXCEPT !.inputs = GraphInputs(s_args, shname),
                     !.outputs = s_results,
                     !.pc = "built"]]
    /\ UNCHANGED <<inst, cache, s_vars, s_args, s_results, shname, last, heap>>

\* Function.compile_function, lines 304-315: the graph is compiled and the
\* callable is stored under the arity of the call
TStore(t) ==
    /\ threads[t].pc = "built"
    /\ LET key == cache_id(inst.fn, threads[t].args, <<>>).key
           art == Artifact(FreshId(cache, key), key, threads[t].inputs,
                           Len(threads[t].outputs) = 1, Len(threads[t].outputs), 0)
       IN  /\ cache' = Put(cache, key, art)
           /\ threads' = [threads EXCEPT ![t] = [@ EXCEPT !.fn = art, !.pc = "invoke"]]
    /\ UNCHANGED <<inst, s_vars, s_args, s_results, shname, last, heap>>

\* Function.call, lines 323-324: the callable is invoked on the arguments
TInvoke(t) ==
    /\ threads[t].pc = "invoke"
    /\ threads' = [threads EXCEPT ![t] =
           [@ EXCEPT !.err = IF Len(get_theano_args(inst.fn, threads[t].args, <<>>))
                                 = Len(threads[t].fn.inputs)
                              THEN "none" ELSE "TypeError",
                     !.pc = "done"]]
    /\ UNCHANGED <<inst, cache, s_vars, s_args, s_results, shname, last, heap>>

ThreadFns == {F_x, F_xy, F_x_rest}

InitThreads ==
    /\ \E fn \in ThreadFns : inst = Instance("Function", fn, <<>>, NoFlags)
    /\ cache = EmptyMap
    /\ s_vars = {}
    /\ s_args = <<>>
    /\ s_results = <<>>
    /\ shname = EmptyMap
    /\ last = [op |-> "init"]
    /\ heap = NoHeap
    /\ threads = [t \in Threads |-> Idle]

NextThreads ==
    \E t \in Threads :
       TLookup(t) \/ TClear(t) \/ TCollect(t) \/ TBuild(t) \/ TStore(t) \/ TInvoke(t)
SpecThreads == InitThreads /\ [][NextThreads]_vars

\* the graph a thread's call builds when no other call runs
AloneTrace(t) ==
    trace(inst.fn, "tuple", "dict", threads[t].args, <<>>, ThreadOracle(t),
          {}, <<>>, <<>>, EmptyMap)
AloneInputs(t) == GraphInputs(AloneTrace(t).s_args, AloneTrace(t).shname)
AloneOutputs(t) == AloneTrace(t).s_results

\* C13: when two threads call a Function instance and both find no
\* artifact for their arity, each builds the graph of its own trace, the
\* inputs and outputs it would build if it ran alone, and its call returns
\* without an error as it would alone.
C13_ThreadsIsolated ==
    (threads # NoThreads /\ \A u \in Threads : threads[u].missed)
        => \A t \in Threads :
              /\ threads[t].pc \in {"built", "invoke", "done"}
                    => /\ threads[t].inputs = AloneInputs(t)
                       /\ threads[t].outputs = AloneOutputs(t)
              /\ threads[t].pc = "done" => threads[t].err = "none"

\* the identities of the last trace's bound arguments, and its names
LastArgIds ==
    {o.id : o \in Range(LastBound.pos) \cup Range(LastBound.var)}
    \cup {p[2].id : p \in Range(LastBound.kw)}
LastNames ==
    Range(inst.fn.args) \cup {inst.fn.varargs} \cup {p[1] : p \in Range(LastBound.kw)}

\* C18: after a trace that reached the Trace Oracle, of a call that fits
\* pyfn, s_vars is the oracle's map of this trace (the arguments and
\* results of this call it did not miss), every entry of s_args is a name
\* of this call with shadows of this call's arguments, and every entry of
\* s_results is a result of this call; whatever an earlier trace left is
\* gone.
C18_MapsRebuilt ==
    (last.op = "trace" /\ last.called /\ LastBound.err = "none")
        => /\ s_vars = (LastArgIds \cup Range(last.results)) \ last.miss
           /\ \A k \in DOMAIN s_args :
                 /\ s_args[k].name \in LastNames
                 /\ Range(s_args[k].sh) \subseteq LastArgIds \cap s_vars
           /\ Range(s_results) \subseteq Range(last.results) \cap s_vars
           /\ last.err = "none" => Range(s_results) = Range(last.results)

\* a trace that failed on its second result left the first in s_results and
\* no shadow of an array in s_vars
C18_Witness ==
    /\ last.op = "trace" /\ last.err = "KeyError" /\ last.errKind = "result"
    /\ Len(s_results) = 1 /\ s_args # <<>>
    /\ ArrA.id \notin s_vars

---------------------------------------------------------------------------
(* Claims about trace.                                                     *)

IsContainer(o) == o.t \in {"list", "tuple", "dict"}
WellFormedTrace ==
    last.op = "trace" /\ last.argsT \in {"tuple", None} /\ last.kwargsT \in {"dict", None}

\* the names under which the containers of the last trace were passed: the
\* declared name of a positional argument, the variadic name of an extra
\* one, the key of a keyword argument
ContainerNames ==
    {inst.fn.args[i] : i \in {k \in DOMAIN last.args :
                                 k <= Len(inst.fn.args) /\ IsContainer(last.args[k])}}
    \cup {inst.fn.varargs : i \in {k \in DOMAIN last.args :
                                 k > Len(inst.fn.args) /\ IsContainer(last.args[k])}}
    \cup {last.kwargs[i][1] : i \in {k \in DOMAIN last.kwargs : IsContainer(last.kwargs[k][2])}}

\* C5: a trace one of whose arguments is a list, a tuple or a dict, passed
\* positionally, as an extra positional argument or by keyword, ends in a
\* TypeError that names one of the container arguments, and the Trace
\* Oracle is not invoked.
C5_ContainerRejected ==
    (WellFormedTrace /\ ContainerNames # {})
        => /\ last.err = "TypeError"
           /\ last.errKind = "container"
           /\ last.errName \in ContainerNames
           /\ ~last.called

\* a dict passed by keyword is refused although an earlier trace had filled
\* the maps
C5_Witness ==
    /\ WellFormedTrace
    /\ last.kwargs # <<>> /\ last.kwargs[1][2].t = "dict"
    /\ last.args # <<>> /\ ContainerNames = {last.kwargs[1][1]}
    /\ last.err = "TypeError" /\ ~last.called
    /\ s_vars # {}

IsSmallInt(o) == o.t = "int" /\ o.v >= -5 /\ o.v <= 256

\* the values of the last trace's arguments, keyword arguments last, before
\* and after the checks
GivenArgs == last.args \o [i \in DOMAIN last.kwargs |-> last.kwargs[i][2]]
PassedArgs == last.oargs \o [i \in DOMAIN last.okw |-> last.okw[i][2]]

\* the shadow s_args holds for the i-th given argument
ShadowOfArg(i) ==
    LET np == Len(inst.fn.args)
        name == IF i > Len(last.args) THEN last.kwargs[i - Len(last.args)][1]
                ELSE IF i <= np THEN inst.fn.args[i] ELSE inst.fn.varargs
        e == s_args[CHOOSE k \in DOMAIN s_args : s_args[k].name = name]
    IN  IF e.tup THEN e.sh[i - np] ELSE e.sh[1]

\* C10: in every trace that reaches the Trace Oracle, each argument that is
\* an int of -5..256 has been replaced by a new np.int_ object of the same
\* value whose identity no other argument has, every other argument is
\* passed as it was given, and when the trace succeeds two arguments that
\* were small ints have two different shadows in s_args.
C10_SmallIntsReboxed ==
    (last.op = "trace" /\ last.called)
        => /\ Len(PassedArgs) = Len(GivenArgs)
           /\ \A i \in DOMAIN GivenArgs :
                 IF IsSmallInt(GivenArgs[i])
                 THEN /\ PassedArgs[i].t = "np_int"
                      /\ PassedArgs[i].v = GivenArgs[i].v
                      /\ \A j \in DOMAIN GivenArgs :
                            /\ PassedArgs[i].id # GivenArgs[j].id
                            /\ j # i => PassedArgs[i].id # PassedArgs[j].id
                 ELSE PassedArgs[i] = GivenArgs[i]
           /\ last.err = "none" =>
                 \A i, j \in DOMAIN GivenArgs :
                    (i # j /\ IsSmallInt(GivenArgs[i]) /\ IsSmallInt(GivenArgs[j]))
                        => /\ ShadowOfArg(i) # ShadowOfArg(j)
                           /\ ShadowOfArg(i) = PassedArgs[i].id

\* the same small int given twice is traced to two shadows
C10_Witness ==
    /\ last.op = "trace" /\ last.err = "none"
    /\ last.args = <<IntM5, IntM5>>
    /\ ShadowOfArg(1) # ShadowOfArg(2)

====
